---- MODULE Spec2Model ----
(***************************************************************************)
(* bfr: a Brainfuck parser, an IR lowering pass (ir::transform), two       *)
(* interpreters (brainfuck::Vm, ir::Vm), the page-protection life cycle of *)
(* the JIT's native program buffer (jit::Program), the x86-64 encoders     *)
(* (x86::Emitter), the compiler jit::transform and the function it emits,  *)
(* run by the processor one instruction at a time (jit::Vm).               *)
(*                                                                         *)
(* Indices are 0-based as in the source: At(s, i) is s[i] of the Rust      *)
(* slice.  A usize is kept as its two's-complement reading (a value that   *)
(* wrapped below zero is a negative number here and compares, unsigned,    *)
(* above every non-negative one).                                          *)
(***************************************************************************)
EXTENDS Integers, Sequences, FiniteSets, TLC

VARIABLES
    program,      \* parsed_bf: the primitive instructions (main.rs:36)
    input,        \* the bytes the input source will deliver
    vm,           \* opt.vm, the backend being run: "RawBf" or "Bfr"
    bf,           \* the brainfuck::Vm and the streams it was run with
    transformed,  \* the result of ir::transform(&parsed_bf)
    irvm,         \* the ir::Vm and the streams it was run with
    steps,        \* calls of step made by the running vm_loop
    buffers,      \* the native program buffers (jit::Program) and their handles
    source,       \* buf: the bytes of the program file (main.rs:32-34)
    emitter,      \* the x86::Emitter and the buffer it writes
    jit,          \* the locals of jit::transform
    cpu           \* the processor running the emitted function, with its tape

vars ==
    <<program, input, vm, bf, transformed, irvm, steps, buffers,
      source, emitter, jit, cpu>>

------------------------------------------------------------------------------
(* Bounds of the model *)

\* longest primitive program enumerated
MaxLen == 3
\* longest input stream enumerated
MaxIn == 2
\* step calls a vm_loop is followed for
MaxSteps == 16
\* longest IR program handed directly to ir::Vm::new
MaxIrLen == 2
\* native program buffers that may be alive or freed
MaxBuffers == 2
\* largest size argument (in pages) of Program::new
MaxPages == 2

\* the largest buffer handed to Emitter::new on its own
MaxBuf == 6

\* the longest program file given to brainfuck::parse on its own
MaxSrc == 2

\* the steps counted in a run that is followed without end
MaxLoopSteps == 8

\* the steps for which the run of the nested-loops program is followed
MaxNestedSteps == 1700

\* the longest loop-free IR that is compiled
MaxJitLen == 2

\* the number of native instructions the processor runs at most
MaxNative == 64

------------------------------------------------------------------------------
(* Program constants *)

\* cells: [u8; 30000]
CellsLen == 30000
\* array_vec!([usize; 32]), the capacity of the bracket stack
StackCapacity == 32
\* i32::MAX and i32::MIN
MaxI32 == 2147483647
MinI32 == -MaxI32 - 1

At(s, i) == s[i + 1]

SetAt(s, i, x) == [s EXCEPT ![i + 1] = x]

Repeat(x, n) == [i \in 1..n |-> x]

\* a > b on usize
UGt(a, b) == IF (a < 0) = (b < 0) THEN a > b ELSE a < 0

\* a >= b on usize
UGe(a, b) == a = b \/ UGt(a, b)

\* a cast that clamps to 0..255 instead of truncating
AsU8Saturating(x) == IF x < 0 THEN 0 ELSE IF x > 255 THEN 255 ELSE x

\* x as u8
AsU8(x) == x % 256

\* i32::wrapping_add
WrappingAddI32(a, b) ==
    IF b > 0 /\ a > MaxI32 - b THEN (a + MinI32) + (b + MinI32)
    ELSE IF b < 0 /\ a < MinI32 - b THEN (a - MinI32) + (b - MinI32)
    ELSE a + b

------------------------------------------------------------------------------
(* brainfuck.rs: the primitive instructions and the parser *)

BfInstruction ==
    {"IncrementPointer", "DecrementPointer", "IncrementByte", "DecrementByte",
     "OutputByte", "ReadByte", "JumpForwardsIfZero", "JumpBackwardsIfNotZero"}

\* a closure with the arms of '.' and ',' exchanged
ParseByteExchanged(byte) ==
    CASE byte = 62 -> <<"IncrementPointer">>
      [] byte = 60 -> <<"DecrementPointer">>
      [] byte = 43 -> <<"IncrementByte">>
      [] byte = 45 -> <<"DecrementByte">>
      [] byte = 44 -> <<"OutputByte">>
      [] byte = 46 -> <<"ReadByte">>
      [] byte = 91 -> <<"JumpForwardsIfZero">>
      [] byte = 93 -> <<"JumpBackwardsIfNotZero">>
      [] OTHER -> <<>>

\* the filter_map closure of parse: Some(instruction) as <<instruction>>, None as <<>>
ParseByte(byte) ==
    CASE byte = 62 -> <<"IncrementPointer">>
      [] byte = 60 -> <<"DecrementPointer">>
      [] byte = 43 -> <<"IncrementByte">>
      [] byte = 45 -> <<"DecrementByte">>
      [] byte = 46 -> <<"OutputByte">>
      [] byte = 44 -> <<"ReadByte">>
      [] byte = 91 -> <<"JumpForwardsIfZero">>
      [] byte = 93 -> <<"JumpBackwardsIfNotZero">>
      [] OTHER -> <<>>

RECURSIVE parse(_)
parse(stream) ==
    IF stream = <<>> THEN <<>>
    ELSE ParseByte(Head(stream)) \o parse(Tail(stream))

------------------------------------------------------------------------------
(* ir.rs: the IR and the lowering pass *)

IncrementPointer(inc) == [op |-> "IncrementPointer", arg |-> inc]
IncrementByte(inc) == [op |-> "IncrementByte", arg |-> inc]
OutputByte == [op |-> "OutputByte", arg |-> 0]
ReadByte == [op |-> "ReadByte", arg |-> 0]
JumpForwardsIfZero(jmp) == [op |-> "JumpForwardsIfZero", arg |-> jmp]
JumpBackwardsIfNotZero(jmp) == [op |-> "JumpBackwardsIfNotZero", arg |-> jmp]

\* a fold that adds 1 for DecrementByte too
RECURSIVE aggregate_byte_ops_unsigned(_, _)
aggregate_byte_ops_unsigned(instructions, it) ==
    IF it < Len(instructions)
       /\ At(instructions, it) \in {"IncrementByte", "DecrementByte"}
    THEN LET rest == aggregate_byte_ops_unsigned(instructions, it + 1)
         IN  [agg |-> 1 + rest.agg, it |-> rest.it]
    ELSE [agg |-> 0, it |-> it]

\* a fold over at most one instruction (take(1) for take_while_ref)
aggregate_byte_ops_first(instructions, it) ==
    IF it < Len(instructions)
       /\ At(instructions, it) \in {"IncrementByte", "DecrementByte"}
    THEN [agg |-> IF At(instructions, it) = "IncrementByte" THEN 1 ELSE -1,
          it |-> it + 1]
    ELSE [agg |-> 0, it |-> it]

\* take_while_ref(..).fold(0, ..) over the iterator at position it: the sum, and
\* the position of the first instruction the predicate refuses (left unconsumed)
RECURSIVE aggregate_byte_ops(_, _)
aggregate_byte_ops(instructions, it) ==
    IF it < Len(instructions)
       /\ At(instructions, it) \in {"IncrementByte", "DecrementByte"}
    THEN LET rest == aggregate_byte_ops(instructions, it + 1)
         IN  [agg |-> (IF At(instructions, it) = "IncrementByte" THEN 1 ELSE -1)
                       + rest.agg,
              it |-> rest.it]
    ELSE [agg |-> 0, it |-> it]

\* a fold with the two signs exchanged
RECURSIVE aggregate_pointer_ops_swapped(_, _)
aggregate_pointer_ops_swapped(instructions, it) ==
    IF it < Len(instructions)
       /\ At(instructions, it) \in {"IncrementPointer", "DecrementPointer"}
    THEN LET rest == aggregate_pointer_ops_swapped(instructions, it + 1)
         IN  [agg |-> (IF At(instructions, it) = "DecrementPointer" THEN 1 ELSE -1)
                       + rest.agg,
              it |-> rest.it]
    ELSE [agg |-> 0, it |-> it]

RECURSIVE aggregate_pointer_ops(_, _)
aggregate_pointer_ops(instructions, it) ==
    IF it < Len(instructions)
       /\ At(instructions, it) \in {"IncrementPointer", "DecrementPointer"}
    THEN LET rest == aggregate_pointer_ops(instructions, it + 1)
         IN  [agg |-> (IF At(instructions, it) = "IncrementPointer" THEN 1 ELSE -1)
                       + rest.agg,
              it |-> rest.it]
    ELSE [agg |-> 0, it |-> it]

\* transform has not been called
NotTransformed ==
    [tag |-> "none", ir |-> <<>>, it |-> 0, idx |-> 0, stack |-> <<>>]

\* transform, to the start of pass 1: it is the position it.next() reads, ir is
\* the vector transformed
TransformEnter ==
    [tag |-> "pass1", ir |-> <<>>, it |-> 0, idx |-> 0, stack |-> <<>>]

\* pass 1: combine increments; one turn of the while let loop
Pass1Step(instructions, t) ==
    LET instr == At(instructions, t.it)
        bytes == aggregate_byte_ops(instructions, t.it + 1)
        ptrs  == aggregate_pointer_ops(instructions, t.it + 1)
    IN  CASE instr = "IncrementByte" ->
               [t EXCEPT !.ir = Append(@, IncrementByte(1 + bytes.agg)),
                         !.it = bytes.it]
          [] instr = "DecrementByte" ->
               [t EXCEPT !.ir = Append(@, IncrementByte(-1 + bytes.agg)),
                         !.it = bytes.it]
          [] instr = "IncrementPointer" ->
               [t EXCEPT !.ir = Append(@, IncrementPointer(1 + ptrs.agg)),
                         !.it = ptrs.it]
          [] instr = "DecrementPointer" ->
               [t EXCEPT !.ir = Append(@, IncrementPointer(-1 + ptrs.agg)),
                         !.it = ptrs.it]
          [] instr = "OutputByte" ->
               [t EXCEPT !.ir = Append(@, OutputByte), !.it = @ + 1]
          [] instr = "ReadByte" ->
               [t EXCEPT !.ir = Append(@, ReadByte), !.it = @ + 1]
          [] instr = "JumpBackwardsIfNotZero" ->
               [t EXCEPT !.ir = Append(@, JumpBackwardsIfNotZero(0)),
                         !.it = @ + 1]
          [] instr = "JumpForwardsIfZero" ->
               [t EXCEPT !.ir = Append(@, JumpForwardsIfZero(0)), !.it = @ + 1]

\* the vector is dropped when transform returns Err or unwinds
TransformFail(t, how) == [t EXCEPT !.tag = how, !.ir = <<>>, !.stack = <<>>]

\* ArrayVec::push, which panics on a full stack
StackPush(t, idx) ==
    IF Len(t.stack) = StackCapacity THEN TransformFail(t, "panic")
    ELSE [t EXCEPT !.stack = Append(@, idx), !.idx = @ + 1]

\* pass 2: precompute jumps; one turn of the for loop
Pass2Step(t) ==
    LET idx == t.idx
        instr == At(t.ir, idx)
    IN  CASE instr.op = "JumpForwardsIfZero" -> StackPush(t, idx)
          [] instr.op = "JumpBackwardsIfNotZero" ->
               IF t.stack = <<>> THEN TransformFail(t, "NoMatchingJump")
               ELSE LET target_idx == t.stack[Len(t.stack)]
                        distance == idx - target_idx
                    IN  [t EXCEPT
                           !.stack = SubSeq(@, 1, Len(@) - 1),
                           !.ir = SetAt(SetAt(@, target_idx,
                                              JumpForwardsIfZero(distance)),
                                        idx, JumpBackwardsIfNotZero(distance)),
                           !.idx = @ + 1]
          [] OTHER -> [t EXCEPT !.idx = @ + 1]

\* Ok(transformed)
TransformOk(t) == [t EXCEPT !.tag = "Ok", !.stack = <<>>]

------------------------------------------------------------------------------
(* The tape and the streams shared by the two interpreters *)

\* cells: [u8; 30000] is kept as the set of its non-zero cells, <<index, byte>>
ZeroCells == {}

Cell(cells, i) ==
    IF \E c \in cells : c[1] = i
    THEN (CHOOSE c \in cells : c[1] = i)[2]
    ELSE 0

SetCell(cells, i, v) ==
    {c \in cells : c[1] # i} \cup (IF v = 0 THEN {} ELSE {<<i, v>>})

\* get_unchecked(data_pointer) is defined only inside the array
InBounds(m) == m.data_pointer >= 0 /\ m.data_pointer < CellsLen

\* Vm::new (brainfuck.rs and ir.rs), with fresh streams: read counts the bytes
\* taken from the input, out is what the output received
VmNew(prog) ==
    [program |-> prog, program_counter |-> 0, data_pointer |-> 0,
     cells |-> ZeroCells, status |-> "running", read |-> 0, out |-> <<>>]

\* no Vm constructed
NoVm ==
    [program |-> <<>>, program_counter |-> 0, data_pointer |-> 0,
     cells |-> ZeroCells, status |-> "none", read |-> 0, out |-> <<>>]

\* the guard of vm_loop's while, and no error or panic so far
Running(m) ==
    m.status = "running" /\ ~UGe(m.program_counter, Len(m.program))

\* vm_loop returned Ok(())
Halted(m) ==
    m.status = "running" /\ UGe(m.program_counter, Len(m.program))

\* a panic, an Err return, an access outside the array (undefined behaviour,
\* after which nothing is known of the machine): the machine is left as it was
Stop(m, how) == [m EXCEPT !.status = how]

\* a write that puts the byte in front of what was written before
WriteByteInFront(m, io_ok) ==
    IF ~InBounds(m) THEN Stop(m, "ub")
    ELSE IF ~io_ok THEN Stop(m, "FailedToWrite")
    ELSE [m EXCEPT !.out = <<Cell(m.cells, m.data_pointer)>> \o @,
                   !.program_counter = @ + 1]

\* output.write(&[byte]) of both interpreters
WriteByte(m, io_ok) ==
    IF ~InBounds(m) THEN Stop(m, "ub")
    ELSE IF ~io_ok THEN Stop(m, "FailedToWrite")
    ELSE [m EXCEPT !.out = Append(@, Cell(m.cells, m.data_pointer)),
                   !.program_counter = @ + 1]

\* a read that counts the instruction as done before it reports the error
ReadIntoSliceCounted(m, inp, io_ok) ==
    IF UGt(m.data_pointer, 1) THEN Stop(m, "panic")
    ELSE IF ~io_ok
         THEN Stop([m EXCEPT !.program_counter = @ + 1], "FailedToRead")
    ELSE IF m.data_pointer = 1 \/ m.read >= Len(inp)
         THEN [m EXCEPT !.program_counter = @ + 1]
    ELSE [m EXCEPT !.cells = SetCell(@, 0, At(inp, m.read)),
                   !.read = @ + 1,
                   !.program_counter = @ + 1]

\* input.read(&mut self.cells[self.data_pointer..1]) of both interpreters:
\* the range data_pointer..1 panics when data_pointer > 1, is empty when
\* data_pointer = 1, and is the one cell 0 when data_pointer = 0; read returns
\* Ok(0) and stores nothing on an empty buffer or at the end of the input
ReadIntoSlice(m, inp, io_ok) ==
    IF UGt(m.data_pointer, 1) THEN Stop(m, "panic")
    ELSE IF ~io_ok THEN Stop(m, "FailedToRead")
    ELSE IF m.data_pointer = 1 \/ m.read >= Len(inp)
         THEN [m EXCEPT !.program_counter = @ + 1]
    ELSE [m EXCEPT !.cells = SetCell(@, 0, At(inp, m.read)),
                   !.read = @ + 1,
                   !.program_counter = @ + 1]

------------------------------------------------------------------------------
(* brainfuck.rs: the plain interpreter *)

\* '[' minus ']' among prog[from..to], the change the scan loops make to their
\* counter over these instructions
BracketCount(prog, from, to) ==
    Cardinality({k \in from..to : At(prog, k) = "JumpForwardsIfZero"})
    - Cardinality({k \in from..to : At(prog, k) = "JumpBackwardsIfNotZero"})

\* the forward scan for the matching ']' (opened = 1; jump = pc): the loop
\* breaks at the first jump > pc where opened is back to 0 and returns
\* Err(NoMatchingJump), here -1, when jump reaches program.len() first
ScanForwards(prog, pc) ==
    LET stops == {jump \in pc + 1 .. Len(prog) - 1 :
                      1 + BracketCount(prog, pc + 1, jump) = 0}
    IN  IF stops = {} THEN -1
        ELSE CHOOSE jump \in stops : \A other \in stops : jump <= other

\* the backward scan for the matching '[' (closed = 1; jump = pc): the loop
\* breaks at the first jump < pc where closed is back to 0 and returns
\* Err(NoMatchingJump), here -1, when jump wraps below 0 first
ScanBackwards(prog, pc) ==
    LET stops == {jump \in 0 .. pc - 1 :
                      1 - BracketCount(prog, jump, pc - 1) = 0}
    IN  IF stops = {} THEN -1
        ELSE CHOOSE jump \in stops : \A other \in stops : jump >= other

BfMovePointer(m, by) ==
    IF UGt(m.data_pointer + by, CellsLen) THEN Stop(m, "panic")
    ELSE [m EXCEPT !.data_pointer = @ + by, !.program_counter = @ + 1]

\* an addition that panics on overflow instead of wrapping
BfAddByteChecked(m, by) ==
    IF ~InBounds(m) THEN Stop(m, "ub")
    ELSE IF Cell(m.cells, m.data_pointer) + by \notin 0..255
    THEN Stop(m, "panic")
    ELSE [m EXCEPT !.cells = SetCell(@, m.data_pointer,
                                     Cell(m.cells, m.data_pointer) + by),
                   !.program_counter = @ + 1]

BfAddByte(m, by) ==
    IF ~InBounds(m) THEN Stop(m, "ub")
    ELSE [m EXCEPT !.cells = SetCell(@, m.data_pointer,
                                     AsU8(Cell(m.cells, m.data_pointer) + by)),
                   !.program_counter = @ + 1]

BfJumpForwardsIfZero(m) ==
    IF ~InBounds(m) THEN Stop(m, "ub")
    ELSE IF Cell(m.cells, m.data_pointer) = 0
         THEN LET jump == ScanForwards(m.program, m.program_counter)
              IN  IF jump = -1 THEN Stop(m, "NoMatchingJump")
                  ELSE [m EXCEPT !.program_counter = jump]
    ELSE [m EXCEPT !.program_counter = @ + 1]

BfJumpBackwardsIfNotZero(m) ==
    IF ~InBounds(m) THEN Stop(m, "ub")
    ELSE IF Cell(m.cells, m.data_pointer) # 0
         THEN LET jump == ScanBackwards(m.program, m.program_counter)
              IN  IF jump = -1 THEN Stop(m, "NoMatchingJump")
                  ELSE [m EXCEPT !.program_counter = jump]
    ELSE [m EXCEPT !.program_counter = @ + 1]

\* brainfuck::Vm::step
brainfuck_step(m, inp, io_ok) ==
    LET instruction == At(m.program, m.program_counter) IN
    CASE instruction = "IncrementPointer" -> BfMovePointer(m, 1)
      [] instruction = "DecrementPointer" -> BfMovePointer(m, -1)
      [] instruction = "IncrementByte" -> BfAddByte(m, 1)
      [] instruction = "DecrementByte" -> BfAddByte(m, -1)
      [] instruction = "OutputByte" -> WriteByte(m, io_ok)
      [] instruction = "ReadByte" -> ReadIntoSlice(m, inp, io_ok)
      [] instruction = "JumpForwardsIfZero" -> BfJumpForwardsIfZero(m)
      [] instruction = "JumpBackwardsIfNotZero" -> BfJumpBackwardsIfNotZero(m)

------------------------------------------------------------------------------
(* ir.rs: the IR interpreter *)

IrIncrementPointer(m, inc) ==
    IF UGt(m.data_pointer + inc, CellsLen) THEN Stop(m, "panic")
    ELSE [m EXCEPT !.data_pointer = @ + inc, !.program_counter = @ + 1]

IrIncrementByte(m, inc) ==
    IF ~InBounds(m) THEN Stop(m, "ub")
    ELSE [m EXCEPT !.cells =
                       SetCell(@, m.data_pointer,
                               AsU8(WrappingAddI32(Cell(m.cells, m.data_pointer),
                                                   inc))),
                   !.program_counter = @ + 1]

IrJumpForwardsIfZero(m, jmp) ==
    IF ~InBounds(m) THEN Stop(m, "ub")
    ELSE IF Cell(m.cells, m.data_pointer) = 0
         THEN [m EXCEPT !.program_counter = @ + jmp]
    ELSE [m EXCEPT !.program_counter = @ + 1]

\* a backward jump that is never taken
IrJumpBackwardsNever(m, jmp) ==
    IF ~InBounds(m) THEN Stop(m, "ub")
    ELSE [m EXCEPT !.program_counter = @ + 1]

\* a backward jump that lands one instruction before the '['
IrJumpBackwardsBeforeOpen(m, jmp) ==
    IF ~InBounds(m) THEN Stop(m, "ub")
    ELSE IF Cell(m.cells, m.data_pointer) # 0
         THEN [m EXCEPT !.program_counter = (@ - jmp) - 1]
    ELSE [m EXCEPT !.program_counter = @ + 1]

IrJumpBackwardsIfNotZero(m, jmp) ==
    IF ~InBounds(m) THEN Stop(m, "ub")
    ELSE IF Cell(m.cells, m.data_pointer) # 0
         THEN [m EXCEPT !.program_counter = @ - jmp]
    ELSE [m EXCEPT !.program_counter = @ + 1]

\* ir::Vm::step
ir_step(m, inp, io_ok) ==
    LET instruction == At(m.program, m.program_counter) IN
    CASE instruction.op = "IncrementPointer" ->
            IrIncrementPointer(m, instruction.arg)
      [] instruction.op = "IncrementByte" -> IrIncrementByte(m, instruction.arg)
      [] instruction.op = "OutputByte" -> WriteByte(m, io_ok)
      [] instruction.op = "ReadByte" -> ReadIntoSlice(m, inp, io_ok)
      [] instruction.op = "JumpForwardsIfZero" ->
            IrJumpForwardsIfZero(m, instruction.arg)
      [] instruction.op = "JumpBackwardsIfNotZero" ->
            IrJumpBackwardsIfNotZero(m, instruction.arg)

------------------------------------------------------------------------------
(* jit/mod.rs: the native program buffer and its three handles *)

PAGE_SIZE == 4096

PROT_NONE == {}

\* a buffer no Program::new has allocated yet.  handles is the set of handle
\* types through which the buffer is held; fn_prot is the protection the pages
\* had when as_function last returned the function pointer
NoBuffer ==
    [allocated |-> "no", size |-> 0, prot |-> PROT_NONE, handles |-> {},
     fn_prot |-> {"never"}]

NoBuffers == [b \in 1..MaxBuffers |-> NoBuffer]

\* Program::new(size): alloc, fill with 0xc3, mprotect(PROT_NONE)
Program_new(buf, size) ==
    [buf EXCEPT !.allocated = "yes", !.size = size * PAGE_SIZE,
                !.prot = PROT_NONE, !.handles = {"Program"}]

\* Program::into_sliceable, SliceableProgram::new: self is moved
into_sliceable(buf) ==
    [buf EXCEPT !.prot = {"READ", "WRITE"},
                !.handles = (@ \ {"Program"}) \cup {"SliceableProgram"}]

\* SliceableProgram::lock
SliceableProgram_lock(buf) ==
    [buf EXCEPT !.prot = PROT_NONE,
                !.handles = (@ \ {"SliceableProgram"}) \cup {"Program"}]

\* an mprotect that leaves the pages writable as well
into_callable_writable(buf) ==
    [buf EXCEPT !.prot = {"READ", "WRITE", "EXEC"},
                !.handles = (@ \ {"Program"}) \cup {"CallableProgram"}]

\* Program::into_callable, CallableProgram::new: self is moved
into_callable(buf) ==
    [buf EXCEPT !.prot = {"READ", "EXEC"},
                !.handles = (@ \ {"Program"}) \cup {"CallableProgram"}]

\* CallableProgram::lock: returns self.program, no mprotect
CallableProgram_lock(buf) ==
    [buf EXCEPT !.handles = (@ \ {"CallableProgram"}) \cup {"Program"}]

\* CallableProgram::as_function
as_function(buf) == [buf EXCEPT !.fn_prot = buf.prot]

\* Drop for Program, reached from the drop of any of the three handles: dealloc
drop(buf, handle) ==
    [buf EXCEPT !.allocated = "freed", !.handles = @ \ {handle}]

------------------------------------------------------------------------------
(* jit/x86.rs *)

Rax == 0
Rcx == 1
Rdx == 2
Rbx == 3
Rsp == 4
Rbp == 5
Rsi == 6
Rdi == 7
R8 == 8
R9 == 9
R10 == 10
R11 == 11
R12 == 12
R13 == 13
R14 == 14
R15 == 15

Register == Rax..R15

\* a byte buffer of size bytes, all fill except at the offsets of bytes, a set
\* of <<offset, byte>>
FilledBuffer(size, fill) == [size |-> size, fill |-> fill, bytes |-> {}]

ByteAt(buffer, k) ==
    IF \E pr \in buffer.bytes : pr[1] = k
    THEN (CHOOSE pr \in buffer.bytes : pr[1] = k)[2]
    ELSE buffer.fill

\* buffer[at .. at + emitted.len()].copy_from_slice(emitted)
CopyFromSlice(buffer, at, emitted) ==
    [buffer EXCEPT !.bytes =
        {pr \in @ : pr[1] < at \/ pr[1] >= at + Len(emitted)}
        \cup {pr \in {<<at + i - 1, emitted[i]>> : i \in 1..Len(emitted)} :
                  pr[2] # buffer.fill}]

NoEmitter == [index |-> 0, buffer |-> FilledBuffer(0, 0), status |-> "none"]

\* Emitter::new
Emitter_new(buffer) == [index |-> 0, buffer |-> buffer, status |-> "ok"]

\* an emit that copies the bytes that fit before it panics
emit_unchecked(e, emitted) ==
    IF e.status # "ok" THEN e
    ELSE IF e.index + Len(emitted) > e.buffer.size
    THEN [e EXCEPT !.status = "panic",
                   !.buffer = CopyFromSlice(@, e.index,
                                  SubSeq(emitted, 1, e.buffer.size - e.index))]
    ELSE [e EXCEPT !.buffer = CopyFromSlice(@, e.index, emitted),
                   !.index = @ + Len(emitted)]

\* Emitter::emit: the range index .. index + len is checked before any byte is
\* copied; nothing runs after a panic
emit(e, emitted) ==
    IF e.status # "ok" THEN e
    ELSE IF e.index + Len(emitted) > e.buffer.size
    THEN [e EXCEPT !.status = "panic"]
    ELSE [e EXCEPT !.buffer = CopyFromSlice(@, e.index, emitted),
                   !.index = @ + Len(emitted)]

modrm(mode, reg, rm) == ((mode % 4) * 64) + ((reg % 8) * 8) + (rm % 8)

rexw_r(register) == 72 + (IF register >= R8 THEN 4 ELSE 0)

rexw_r_rm(register, rm) == rexw_r(register) + (IF rm >= R8 THEN 1 ELSE 0)

\* Option<u8> as a sequence of at most one byte
rex_rm(register) == IF register > R8 THEN <<65>> ELSE <<>>

\* u32::to_le_bytes, for offsets below 2^31
U32LeBytes(x) ==
    <<x % 256, (x \div 256) % 256, (x \div 65536) % 256, (x \div 16777216) % 256>>

\* i32::to_le_bytes: two's complement
I32LeBytes(x) ==
    IF x >= 0 THEN U32LeBytes(x)
    ELSE LET y == (x + MaxI32) + 1
         IN  <<y % 256, (y \div 256) % 256, (y \div 65536) % 256,
               ((y \div 16777216) % 256) + 128>>

addu8_reg(e, register, imm) ==
    emit(e, <<rexw_r(register), 131, modrm(3, 0, register), imm>>)

subu8_reg(e, register, imm) ==
    emit(e, <<rexw_r(register), 131, modrm(3, 5, register), imm>>)

addu8_ptr(e, register, imm) == emit(e, <<128, modrm(0, 0, register), imm>>)

subu8_ptr(e, register, imm) == emit(e, <<128, modrm(0, 5, register), imm>>)

addu8_ptr_u8disp(e, register, disp, imm) ==
    emit(e, <<128, modrm(1, 0, register), disp, imm>>)

subu8_ptr_u8disp(e, register, disp, imm) ==
    emit(e, <<128, modrm(1, 5, register), disp, imm>>)

cmpu8_ptr(e, register, imm) == emit(e, <<128, modrm(0, 7, register), imm>>)

jneu32(e, offset) == emit(e, <<15, 133>> \o U32LeBytes(offset))

jeu32(e, offset) == emit(e, <<15, 132>> \o U32LeBytes(offset))

call64(e, register) == emit(e, rex_rm(register) \o <<255, modrm(3, 2, register)>>)

push(e, register) == emit(e, rex_rm(register) \o <<255, modrm(3, 6, register)>>)

pop(e, register) == emit(e, rex_rm(register) \o <<143, modrm(3, 0, register)>>)

mov64_reg(e, dst, src) ==
    emit(e, <<rexw_r_rm(src, dst), 137, modrm(3, src, dst)>>)

------------------------------------------------------------------------------
(* jit/mod.rs: jit::transform *)

\* the pages that transform asks of Program::new
JitPages == 8

\* transform has not been called.  jumps is the BTreeMap from the IR index of a
\* bracket to its JumpInfo, as a set of records; patched counts the entries
\* the patch loop has been through; starts[idx + 1] is emitter.index at the
\* start of the iteration for instructions[idx]
NoJit ==
    [tag |-> "none", idx |-> 0, jumps |-> {}, patched |-> 0, starts |-> <<>>]

\* lines 153-161: the four pushes and the four moves
Prologue(e) ==
    mov64_reg(
        mov64_reg(
            mov64_reg(
                mov64_reg(push(push(push(push(e, Rbp), R12), R13), R14),
                          Rbp, Rsi),
                R12, Rdx),
            R13, Rcx),
        R14, R8)

\* lines 139-163: the buffer is allocated and made writable, the emitter is
\* made on its slice and the prologue is emitted
JitEnter ==
    [tag |-> "emit", idx |-> 0, jumps |-> {}, patched |-> 0, starts |-> <<>>]

\* *inc as u8 and -*inc as u8 of a delta above i32::MIN
EmitIncrementPointer(e, inc) ==
    IF inc > 0 THEN addu8_reg(e, Rdi, AsU8(inc))
    ELSE IF inc < 0 THEN subu8_reg(e, Rdi, AsU8(-inc))
    ELSE e

EmitIncrementByte(e, inc) ==
    IF inc > 0 THEN addu8_ptr(e, Rdi, AsU8(inc))
    ELSE IF inc < 0 THEN subu8_ptr(e, Rdi, AsU8(-inc))
    ELSE e

\* a call with rdi neither pushed before it nor popped after it
EmitOutputByteUnsaved(e) == call64(mov64_reg(e, Rsi, R12), Rbp)

EmitOutputByte(e) ==
    pop(call64(push(mov64_reg(e, Rsi, R12), Rdi), Rbp), Rdi)

EmitReadByte(e) ==
    pop(call64(push(mov64_reg(e, Rsi, R14), Rdi), R13), Rdi)

\* one iteration of the loop over instructions: the emitter after it
EmitInstruction(e, instr) ==
    CASE instr.op = "IncrementPointer" -> EmitIncrementPointer(e, instr.arg)
      [] instr.op = "IncrementByte" -> EmitIncrementByte(e, instr.arg)
      [] instr.op = "JumpBackwardsIfNotZero" ->
            jneu32(cmpu8_ptr(e, Rdi, 0), 42)
      [] instr.op = "JumpForwardsIfZero" -> jeu32(cmpu8_ptr(e, Rdi, 0), 42)
      [] instr.op = "OutputByte" -> EmitOutputByte(e)
      [] instr.op = "ReadByte" -> EmitReadByte(e)

\* the JumpInfo that the iteration for a bracket at idx inserts: asm_offset is
\* emitter.index after the cmp
JumpInfoOf(e, idx, instr) ==
    IF instr.op = "JumpBackwardsIfNotZero"
    THEN {[idx |-> idx, target |-> idx - instr.arg,
           asm_offset |-> cmpu8_ptr(e, Rdi, 0).index]}
    ELSE IF instr.op = "JumpForwardsIfZero"
    THEN {[idx |-> idx, target |-> idx + instr.arg,
           asm_offset |-> cmpu8_ptr(e, Rdi, 0).index]}
    ELSE {}

\* one iteration of the loop over instructions: the locals after it
EmitStep(j, e, instr) ==
    IF EmitInstruction(e, instr).status = "panic"
    THEN [j EXCEPT !.tag = "panic"]
    ELSE [j EXCEPT !.idx = @ + 1,
                   !.jumps = @ \cup JumpInfoOf(e, j.idx, instr),
                   !.starts = Append(@, e.index)]

\* an epilogue that pops in the order of the pushes
EpilogueInPushOrder(e) == pop(pop(pop(pop(e, Rbp), R12), R13), R14)

\* lines 246-249
Epilogue(e) == pop(pop(pop(pop(e, R14), R13), R12), Rbp)

\* the entries of jumps in the order of jumps.values(), by IR index
NthJump(jumps, n) ==
    CHOOSE jumpinfo \in jumps :
        Cardinality({other \in jumps : other.idx < jumpinfo.idx}) = n

\* an offset measured from the end of the jump being patched
PatchOffsetFromNext(target, jumpinfo) ==
    target.asm_offset - (jumpinfo.asm_offset + 6)

\* line 259
PatchOffset(target, jumpinfo) == target.asm_offset - jumpinfo.asm_offset

\* the entries that jumps.get(&jumpinfo.target) finds for the entry the patch
\* loop is at: none when the target is not the index of a bracket
PatchTargets(j) ==
    {t \in j.jumps : t.idx = NthJump(j.jumps, j.patched).target}

\* a patch that stores the four bytes behind everything emitted
PatchStepBehind(j, e) ==
    LET jumpinfo == NthJump(j.jumps, j.patched)
        target == CHOOSE t \in PatchTargets(j) : TRUE
    IN  [e EXCEPT !.buffer =
            CopyFromSlice(@, e.index,
                          I32LeBytes(PatchOffset(target, jumpinfo)))]

\* one iteration of the patch loop: the four stores into the slice
PatchStep(j, e) ==
    LET jumpinfo == NthJump(j.jumps, j.patched)
        target == CHOOSE t \in PatchTargets(j) : TRUE
    IN  [e EXCEPT !.buffer =
            CopyFromSlice(@, jumpinfo.asm_offset + 2,
                          I32LeBytes(PatchOffset(target, jumpinfo)))]

------------------------------------------------------------------------------
(* jit/mod.rs: jit::Vm, and the processor running the emitted function *)

\* what a register or a stack slot holds: the address of tape cell v, one of
\* the two trampolines, one of the two wrappers, the value the caller of the
\* function left in register v, or anything
TapePtr(p) == [kind |-> "tape", v |-> p]
WriteTrampoline == [kind |-> "fn", v |-> 1]
ReadTrampoline == [kind |-> "fn", v |-> 2]
OutWrapper == [kind |-> "wrapper", v |-> 1]
InWrapper == [kind |-> "wrapper", v |-> 2]
CallerValue(r) == [kind |-> "caller", v |-> r]
Junk == [kind |-> "junk", v |-> 0]

\* no jit::Vm constructed
NoCpu ==
    [status |-> "none", rip |-> 0, reg |-> [r \in Register |-> Junk],
     stack |-> <<>>, zf |-> FALSE, cells |-> ZeroCells, read |-> 0,
     out |-> <<>>]

\* jit::Vm::new: cells: [0; 30000]
CpuNew == [NoCpu EXCEPT !.status = "new"]

\* vm_loop, lines 320-328: the function is entered with the five arguments in
\* rdi, rsi, rdx, rcx and r8; stack holds what the function has pushed
CpuCall(c) ==
    [c EXCEPT !.status = "running",
              !.rip = 0,
              !.reg = [r \in Register |->
                          CASE r = Rdi -> TapePtr(0)
                            [] r = Rsi -> WriteTrampoline
                            [] r = Rdx -> OutWrapper
                            [] r = Rcx -> ReadTrampoline
                            [] r = R8 -> InWrapper
                            [] OTHER -> CallerValue(r)]]

\* an 8-bit immediate or displacement, sign-extended
Sext8(imm) == IF imm >= 128 THEN imm - 256 ELSE imm

\* the signed 32-bit number in the four bytes at at, little-endian
Rel32At(buffer, at) ==
    LET low == ByteAt(buffer, at) + (256 * ByteAt(buffer, at + 1))
               + (65536 * ByteAt(buffer, at + 2))
               + (16777216 * (ByteAt(buffer, at + 3) % 128))
    IN  IF ByteAt(buffer, at + 3) >= 128 THEN (low - MaxI32) - 1 ELSE low

Undefined(c) == [c EXCEPT !.status = "ub"]

\* ret: back in vm_loop when the stack is as it was on entry
CpuRet(c) ==
    IF c.stack = <<>> THEN [c EXCEPT !.status = "returned"] ELSE Undefined(c)

CpuPush(c, r, next) ==
    [c EXCEPT !.stack = Append(@, c.reg[r]), !.rip = next]

CpuPop(c, r, next) ==
    IF c.stack = <<>> THEN Undefined(c)
    ELSE [c EXCEPT !.reg[r] = c.stack[Len(c.stack)],
                   !.stack = SubSeq(@, 1, Len(@) - 1),
                   !.rip = next]

CpuMov(c, dst, src, next) == [c EXCEPT !.reg[dst] = c.reg[src], !.rip = next]

\* add or sub r64, imm8
CpuAddReg(c, r, delta, next) ==
    [c EXCEPT !.reg[r] = IF @.kind = "tape" THEN TapePtr(@.v + delta) ELSE Junk,
              !.zf = FALSE,
              !.rip = next]

\* add, sub or cmp byte [r + disp], imm8
CpuByteOp(c, r, digit, disp, imm, next) ==
    LET at == c.reg[r].v + disp
        old == Cell(c.cells, at)
        new == CASE digit = 0 -> (old + imm) % 256
                 [] digit = 5 -> (old - imm) % 256
                 [] OTHER -> old
    IN  IF c.reg[r].kind # "tape" \/ at < 0 \/ at >= CellsLen
        THEN Undefined(c)
        ELSE [c EXCEPT !.cells = SetCell(@, at, new),
                       !.zf = IF digit = 7 THEN old = imm ELSE new = 0,
                       !.rip = next]

\* je (0x84) or jne (0x85) rel32
CpuJcc(c, opcode, rel, next) ==
    [c EXCEPT !.rip = IF (opcode = 132) = c.zf THEN next + rel ELSE next]

\* the registers a function of the System V ABI may change
CallerSaved == {Rax, Rcx, Rdx, Rsi, Rdi, R8, R9, R10, R11}

Clobbered(reg) == [r \in Register |-> IF r \in CallerSaved THEN Junk ELSE reg[r]]

\* write_trampoline(byte_ptr = rdi, wrapper_ptr = rsi), lines 273-278
write_trampoline(c, io_ok) ==
    IF c.reg[Rsi] # OutWrapper \/ c.reg[Rdi].kind # "tape"
       \/ c.reg[Rdi].v < 0 \/ c.reg[Rdi].v >= CellsLen
    THEN Undefined(c)
    ELSE IF ~io_ok THEN [c EXCEPT !.status = "panic"]
    ELSE [c EXCEPT !.out = Append(@, Cell(c.cells, c.reg[Rdi].v)),
                   !.reg = Clobbered(@)]

\* read_trampoline(byte_ptr = rdi, wrapper_ptr = rsi), lines 280-285:
\* read_exact fails at the end of the input and unwrap panics
read_trampoline(c, inp, io_ok) ==
    IF c.reg[Rsi] # InWrapper \/ c.reg[Rdi].kind # "tape"
       \/ c.reg[Rdi].v < 0 \/ c.reg[Rdi].v >= CellsLen
    THEN Undefined(c)
    ELSE IF ~io_ok \/ c.read >= Len(inp) THEN [c EXCEPT !.status = "panic"]
    ELSE [c EXCEPT !.cells = SetCell(@, c.reg[Rdi].v, At(inp, c.read)),
                   !.read = @ + 1,
                   !.reg = Clobbered(@)]

\* call r64, the called function and its return.  The function was entered
\* with rsp 8 off a multiple of 16, so rsp is a multiple of 16 at the call
\* when an odd number of pushes is outstanding; the trampolines are compiled
\* for that
CpuCallReg(c, r, next, inp, io_ok) ==
    IF Len(c.stack) % 2 # 1 THEN Undefined(c)
    ELSE IF c.reg[r] = WriteTrampoline
    THEN [write_trampoline(c, io_ok) EXCEPT !.rip = next]
    ELSE IF c.reg[r] = ReadTrampoline
    THEN [read_trampoline(c, inp, io_ok) EXCEPT !.rip = next]
    ELSE Undefined(c)

\* the processor runs the instruction at rip
cpu_step(c, buffer, inp, io_ok) ==
    LET b0 == ByteAt(buffer, c.rip)
        rex == b0 \in 64..79
        rexB == IF rex THEN b0 % 2 ELSE 0
        rexR == IF rex THEN (b0 \div 4) % 2 ELSE 0
        o == IF rex THEN c.rip + 1 ELSE c.rip
        opcode == ByteAt(buffer, o)
        m == ByteAt(buffer, o + 1)
        mode == m \div 64
        digit == (m \div 8) % 8
        rm == (m % 8) + (8 * rexB)
        src == digit + (8 * rexR)
    IN  CASE c.rip < 0 \/ c.rip >= buffer.size -> Undefined(c)
          [] opcode = 195 -> CpuRet(c)
          [] opcode = 255 /\ mode = 3 /\ digit = 6 -> CpuPush(c, rm, o + 2)
          [] opcode = 255 /\ mode = 3 /\ digit = 2 ->
                CpuCallReg(c, rm, o + 2, inp, io_ok)
          [] opcode = 143 /\ mode = 3 /\ digit = 0 -> CpuPop(c, rm, o + 2)
          [] opcode = 137 /\ mode = 3 -> CpuMov(c, rm, src, o + 2)
          [] opcode = 131 /\ mode = 3 /\ digit = 0 ->
                CpuAddReg(c, rm, Sext8(ByteAt(buffer, o + 2)), o + 3)
          [] opcode = 131 /\ mode = 3 /\ digit = 5 ->
                CpuAddReg(c, rm, -Sext8(ByteAt(buffer, o + 2)), o + 3)
          [] opcode = 128 /\ mode = 0 /\ digit \in {0, 5, 7}
             /\ (m % 8) \notin {4, 5} ->
                CpuByteOp(c, rm, digit, 0, ByteAt(buffer, o + 2), o + 3)
          [] opcode = 128 /\ mode = 1 /\ digit \in {0, 5, 7} /\ (m % 8) # 4 ->
                CpuByteOp(c, rm, digit, Sext8(ByteAt(buffer, o + 2)),
                          ByteAt(buffer, o + 3), o + 4)
          [] opcode = 15 /\ m \in {132, 133} ->
                CpuJcc(c, m, Rel32At(buffer, o + 2), o + 6)
          [] OTHER -> Undefined(c)

------------------------------------------------------------------------------
(* main.rs: one program and one input, run on the plain interpreter and then,
   lowered, on the IR interpreter *)

\* every primitive program of at most MaxLen instructions
ShortPrograms == UNION {[1..n -> BfInstruction] : n \in 0..MaxLen}

\* longer programs: loops with a body, a read loop, fused runs around a loop,
\* StackCapacity + 1 open brackets with and without their closing brackets
LongPrograms ==
    { parse(<<43, 91, 45, 93, 46>>),                      \* +[-].
      parse(<<43, 43, 91, 45, 62, 43, 60, 93, 62, 46>>),  \* ++[->+<]>.
      parse(<<44, 91, 46, 44, 93>>),                      \* ,[.,]
      parse(<<43, 62, 44, 46, 60, 46>>),                  \* +>,.<.
      parse(<<43, 45, 45, 46, 62, 60, 60>>),              \* +--.><<
      Repeat("JumpForwardsIfZero", StackCapacity + 1),
      Repeat("JumpForwardsIfZero", StackCapacity + 1)
          \o Repeat("JumpBackwardsIfNotZero", StackCapacity + 2) }

Programs == ShortPrograms \cup LongPrograms

InputBytes == {0, 7}

Inputs == UNION {[1..n -> InputBytes] : n \in 0..MaxIn}

Init ==
    /\ program \in Programs
    /\ input \in Inputs
    /\ vm = "RawBf"
    /\ bf = VmNew(program)
    /\ transformed = NotTransformed
    /\ irvm = NoVm
    /\ steps = 0
    /\ buffers = NoBuffers
    /\ source = <<>>
    /\ emitter = NoEmitter
    /\ jit = NoJit
    /\ cpu = NoCpu

\* brainfuck::Vm::vm_loop: one iteration
BfStep ==
    /\ vm = "RawBf"
    /\ Running(bf)
    /\ steps < MaxSteps
    /\ \E io_ok \in BOOLEAN : bf' = brainfuck_step(bf, input, io_ok)
    /\ steps' = steps + 1
    /\ UNCHANGED <<program, input, vm, transformed, irvm, buffers,
                 source, emitter, jit, cpu>>

\* the plain interpreter's run is over, or is followed no further
BfOver == ~(Running(bf) /\ steps < MaxSteps)

\* main.rs:44, the Bfr backend on the same program: ir::transform(&parsed_bf)
\* is entered
TransformCall ==
    /\ vm = "RawBf"
    /\ BfOver
    /\ vm' = "Bfr"
    /\ transformed' = TransformEnter
    /\ steps' = 0
    /\ UNCHANGED <<program, input, bf, irvm, buffers,
                 source, emitter, jit, cpu>>

Pass1 ==
    /\ transformed.tag = "pass1"
    /\ transformed.it < Len(program)
    /\ transformed' = Pass1Step(program, transformed)
    /\ UNCHANGED <<program, input, vm, bf, irvm, steps, buffers,
                 source, emitter, jit, cpu>>

\* it.next() returns None: pass 2 starts with an empty stack
Pass2Enter ==
    /\ transformed.tag = "pass1"
    /\ transformed.it >= Len(program)
    /\ transformed' = [transformed EXCEPT !.tag = "pass2"]
    /\ UNCHANGED <<program, input, vm, bf, irvm, steps, buffers,
                 source, emitter, jit, cpu>>

Pass2 ==
    /\ transformed.tag = "pass2"
    /\ transformed.idx < Len(transformed.ir)
    /\ transformed' = Pass2Step(transformed)
    /\ UNCHANGED <<program, input, vm, bf, irvm, steps, buffers,
                 source, emitter, jit, cpu>>

TransformReturn ==
    /\ transformed.tag = "pass2"
    /\ transformed.idx >= Len(transformed.ir)
    /\ transformed' = TransformOk(transformed)
    /\ UNCHANGED <<program, input, vm, bf, irvm, steps, buffers,
                 source, emitter, jit, cpu>>

\* main.rs:45: ir::Vm::new(ir)
IrVmNew ==
    /\ vm = "Bfr"
    /\ transformed.tag = "Ok"
    /\ irvm.status = "none"
    /\ irvm' = VmNew(transformed.ir)
    /\ UNCHANGED <<program, input, vm, bf, transformed, steps, buffers,
                 source, emitter, jit, cpu>>

\* ir::Vm::vm_loop: one iteration
IrStep ==
    /\ vm = "Bfr"
    /\ Running(irvm)
    /\ steps < MaxSteps
    /\ \E io_ok \in BOOLEAN : irvm' = ir_step(irvm, input, io_ok)
    /\ steps' = steps + 1
    /\ UNCHANGED <<program, input, vm, bf, transformed, buffers,
                 source, emitter, jit, cpu>>

Next ==
    \/ BfStep
    \/ TransformCall
    \/ Pass1
    \/ Pass2Enter
    \/ Pass2
    \/ TransformReturn
    \/ IrVmNew
    \/ IrStep

Spec == Init /\ [][Next]_vars

------------------------------------------------------------------------------
(* ir::Vm::new on any IR, as the library allows *)

IrSamples ==
    {IncrementPointer(d) : d \in {-1, 1, CellsLen - 1, CellsLen, CellsLen + 1}}
    \cup {IncrementByte(d) : d \in {-1, 1, 255, 256, -256, MaxI32, MinI32}}
    \cup {OutputByte, ReadByte}
    \cup {JumpForwardsIfZero(d) : d \in {1, 2}}
    \cup {JumpBackwardsIfNotZero(d) : d \in {1, 2}}

DirectIr == UNION {[1..n -> IrSamples] : n \in 1..MaxIrLen}

InitIr ==
    /\ program = <<>>
    /\ input \in Inputs
    /\ vm = "Bfr"
    /\ bf = NoVm
    /\ transformed = NotTransformed
    /\ irvm \in {VmNew(ir) : ir \in DirectIr}
    /\ steps = 0
    /\ buffers = NoBuffers
    /\ source = <<>>
    /\ emitter = NoEmitter
    /\ jit = NoJit
    /\ cpu = NoCpu

NextIr == IrStep

SpecIr == InitIr /\ [][NextIr]_vars

------------------------------------------------------------------------------
(* The life cycle of the native program buffers *)

InitMem ==
    /\ program = <<>>
    /\ input = <<>>
    /\ vm = "Jit"
    /\ bf = NoVm
    /\ transformed = NotTransformed
    /\ irvm = NoVm
    /\ steps = 0
    /\ buffers = NoBuffers
    /\ source = <<>>
    /\ emitter = NoEmitter
    /\ jit = NoJit
    /\ cpu = NoCpu

Held(b, handle) == handle \in buffers[b].handles

ProgramNew ==
    /\ \E b \in 1..MaxBuffers, size \in 1..MaxPages :
          /\ buffers[b].allocated = "no"
          /\ IF b = 1 THEN TRUE ELSE buffers[b - 1].allocated # "no"
          /\ buffers' = [buffers EXCEPT ![b] = Program_new(@, size)]
    /\ UNCHANGED <<program, input, vm, bf, transformed, irvm, steps,
                 source, emitter, jit, cpu>>

IntoSliceable ==
    /\ \E b \in 1..MaxBuffers :
          /\ Held(b, "Program")
          /\ buffers' = [buffers EXCEPT ![b] = into_sliceable(@)]
    /\ UNCHANGED <<program, input, vm, bf, transformed, irvm, steps,
                 source, emitter, jit, cpu>>

SliceableLock ==
    /\ \E b \in 1..MaxBuffers :
          /\ Held(b, "SliceableProgram")
          /\ buffers' = [buffers EXCEPT ![b] = SliceableProgram_lock(@)]
    /\ UNCHANGED <<program, input, vm, bf, transformed, irvm, steps,
                 source, emitter, jit, cpu>>

IntoCallable ==
    /\ \E b \in 1..MaxBuffers :
          /\ Held(b, "Program")
          /\ buffers' = [buffers EXCEPT ![b] = into_callable(@)]
    /\ UNCHANGED <<program, input, vm, bf, transformed, irvm, steps,
                 source, emitter, jit, cpu>>

CallableLock ==
    /\ \E b \in 1..MaxBuffers :
          /\ Held(b, "CallableProgram")
          /\ buffers' = [buffers EXCEPT ![b] = CallableProgram_lock(@)]
    /\ UNCHANGED <<program, input, vm, bf, transformed, irvm, steps,
                 source, emitter, jit, cpu>>

AsFunction ==
    /\ \E b \in 1..MaxBuffers :
          /\ Held(b, "CallableProgram")
          /\ buffers' = [buffers EXCEPT ![b] = as_function(@)]
    /\ UNCHANGED <<program, input, vm, bf, transformed, irvm, steps,
                 source, emitter, jit, cpu>>

Drop ==
    /\ \E b \in 1..MaxBuffers :
          \E handle \in buffers[b].handles :
              buffers' = [buffers EXCEPT ![b] = drop(@, handle)]
    /\ UNCHANGED <<program, input, vm, bf, transformed, irvm, steps,
                 source, emitter, jit, cpu>>

NextMem ==
    \/ ProgramNew
    \/ IntoSliceable
    \/ SliceableLock
    \/ IntoCallable
    \/ CallableLock
    \/ AsFunction
    \/ Drop

SpecMem == InitMem /\ [][NextMem]_vars

------------------------------------------------------------------------------
(* x86::Emitter on a buffer of its own: any encoder, any number of times *)

InitEmit ==
    /\ program = <<>>
    /\ input = <<>>
    /\ vm = "Jit"
    /\ bf = NoVm
    /\ transformed = NotTransformed
    /\ irvm = NoVm
    /\ steps = 0
    /\ buffers = NoBuffers
    /\ source = <<>>
    /\ emitter \in {Emitter_new(FilledBuffer(n, fill)) :
                       n \in 0..MaxBuf, fill \in {195, 0}}
    /\ jit = NoJit
    /\ cpu = NoCpu

EmitterOnly ==
    /\ emitter.status = "ok"
    /\ UNCHANGED <<program, input, vm, bf, transformed, irvm, steps, buffers,
                   source, jit, cpu>>

EmitRegisters == {Rdi, R8}

EmitImmediates == {1, 255}

EmitAddReg ==
    /\ EmitterOnly
    /\ \E r \in EmitRegisters, imm \in EmitImmediates :
          emitter' = addu8_reg(emitter, r, imm)

EmitSubReg ==
    /\ EmitterOnly
    /\ \E r \in EmitRegisters, imm \in EmitImmediates :
          emitter' = subu8_reg(emitter, r, imm)

EmitAddPtr ==
    /\ EmitterOnly
    /\ \E r \in EmitRegisters, imm \in EmitImmediates :
          emitter' = addu8_ptr(emitter, r, imm)

EmitSubPtr ==
    /\ EmitterOnly
    /\ \E r \in EmitRegisters, imm \in EmitImmediates :
          emitter' = subu8_ptr(emitter, r, imm)

EmitAddPtrDisp ==
    /\ EmitterOnly
    /\ \E r \in EmitRegisters, imm \in EmitImmediates :
          emitter' = addu8_ptr_u8disp(emitter, r, 2, imm)

EmitSubPtrDisp ==
    /\ EmitterOnly
    /\ \E r \in EmitRegisters, imm \in EmitImmediates :
          emitter' = subu8_ptr_u8disp(emitter, r, 2, imm)

EmitCmpPtr ==
    /\ EmitterOnly
    /\ \E r \in EmitRegisters : emitter' = cmpu8_ptr(emitter, r, 0)

EmitJne ==
    /\ EmitterOnly
    /\ \E offset \in {42, 65536} : emitter' = jneu32(emitter, offset)

EmitJe ==
    /\ EmitterOnly
    /\ \E offset \in {42, 65536} : emitter' = jeu32(emitter, offset)

EmitCall ==
    /\ EmitterOnly
    /\ \E r \in Register : emitter' = call64(emitter, r)

EmitPush ==
    /\ EmitterOnly
    /\ \E r \in Register : emitter' = push(emitter, r)

EmitPop ==
    /\ EmitterOnly
    /\ \E r \in Register : emitter' = pop(emitter, r)

EmitMov ==
    /\ EmitterOnly
    /\ \E dst \in {Rbp, R12}, src \in {Rsi, R8} :
          emitter' = mov64_reg(emitter, dst, src)

NextEmit ==
    \/ EmitAddReg
    \/ EmitSubReg
    \/ EmitAddPtr
    \/ EmitSubPtr
    \/ EmitAddPtrDisp
    \/ EmitSubPtrDisp
    \/ EmitCmpPtr
    \/ EmitJne
    \/ EmitJe
    \/ EmitCall
    \/ EmitPush
    \/ EmitPop
    \/ EmitMov

SpecEmit == InitEmit /\ [][NextEmit]_vars

------------------------------------------------------------------------------
(* main.rs:32-42: brainfuck::parse on the bytes of any program file *)

\* the eight symbols, and a space, a letter and a line feed
SourceBytes == {62, 60, 43, 45, 46, 44, 91, 93, 32, 97, 10}

Sources == UNION {[1..n -> SourceBytes] : n \in 0..MaxSrc}

InitParse ==
    /\ program = <<>>
    /\ input = <<>>
    /\ vm = "main"
    /\ bf = NoVm
    /\ transformed = NotTransformed
    /\ irvm = NoVm
    /\ steps = 0
    /\ buffers = NoBuffers
    /\ source \in Sources
    /\ emitter = NoEmitter
    /\ jit = NoJit
    /\ cpu = NoCpu

\* main.rs:36 and 42: the file is parsed and the plain interpreter made
Parse ==
    /\ vm = "main"
    /\ program' = parse(source)
    /\ vm' = "RawBf"
    /\ bf' = VmNew(program')
    /\ UNCHANGED <<input, transformed, irvm, steps, buffers,
                   source, emitter, jit, cpu>>

NextParse == Parse

SpecParse == InitParse /\ [][NextParse]_vars

------------------------------------------------------------------------------
(* main.rs on the programs of the end-to-end scenarios, with either backend,
   vm_loop followed for as long as it runs *)

\* []
EmptyLoop == parse(<<91, 93>>)

\* +[]
SpinLoop == parse(<<43, 91, 93>>)

\* ++>+++[<[->+<]>[-<+>]>-]<.
NestedLoops ==
    parse(<<43, 43, 62, 43, 43, 43, 91, 60, 91, 45, 62, 43, 60, 93, 62, 91, 45,
            60, 43, 62, 93, 62, 45, 93, 60, 46>>)

Scenarios == {EmptyLoop, SpinLoop, NestedLoops}

InitRun ==
    /\ program \in Scenarios
    /\ input = <<>>
    /\ vm \in {"RawBf", "Bfr"}
    /\ bf = IF vm = "RawBf" THEN VmNew(program) ELSE NoVm
    /\ transformed = IF vm = "Bfr" THEN TransformEnter ELSE NotTransformed
    /\ irvm = NoVm
    /\ steps = 0
    /\ buffers = NoBuffers
    /\ source = <<>>
    /\ emitter = NoEmitter
    /\ jit = NoJit
    /\ cpu = NoCpu

\* where the count of steps stops
StepCap == IF program = NestedLoops THEN MaxNestedSteps ELSE MaxLoopSteps

\* the run is followed: always, except that the run of NestedLoops is left
\* after MaxNestedSteps steps
Followed == IF program = NestedLoops THEN steps < MaxNestedSteps ELSE TRUE

CountStep == steps' = IF steps < StepCap THEN steps + 1 ELSE steps

\* brainfuck::Vm::vm_loop: one iteration
RunBfStep ==
    /\ vm = "RawBf"
    /\ Running(bf)
    /\ Followed
    /\ \E io_ok \in BOOLEAN : bf' = brainfuck_step(bf, input, io_ok)
    /\ CountStep
    /\ UNCHANGED <<program, input, vm, transformed, irvm, buffers,
                   source, emitter, jit, cpu>>

\* ir::Vm::vm_loop: one iteration
RunIrStep ==
    /\ vm = "Bfr"
    /\ Running(irvm)
    /\ Followed
    /\ \E io_ok \in BOOLEAN : irvm' = ir_step(irvm, input, io_ok)
    /\ CountStep
    /\ UNCHANGED <<program, input, vm, bf, transformed, buffers,
                   source, emitter, jit, cpu>>

NextRun ==
    \/ RunBfStep
    \/ Pass1
    \/ Pass2Enter
    \/ Pass2
    \/ TransformReturn
    \/ IrVmNew
    \/ RunIrStep

\* main runs on: a call that can be made is made
SpecRun == InitRun /\ [][NextRun]_vars /\ WF_vars(NextRun)

------------------------------------------------------------------------------
(* ir::Vm and the function compiled by jit::transform on the same IR *)

\* loop-free IR as ir::transform leaves it: a run of pointer moves or of byte
\* changes is one instruction, and a run that cancels out has delta 0
JitSamples ==
    {IncrementPointer(d) : d \in {-1, 0, 1, 128, 256}}
    \cup {IncrementByte(d) : d \in {-1, 0, 1, 256}}
    \cup {OutputByte, ReadByte}

Fused(ir) ==
    \A i \in 1..(Len(ir) - 1) :
        ir[i].op = ir[i + 1].op
            => ir[i].op \notin {"IncrementPointer", "IncrementByte"}

\* "[]", "+[-].", ",[.,]" and ">+[<.>-]" lowered
JitLoops ==
    {<<JumpForwardsIfZero(1), JumpBackwardsIfNotZero(1)>>,
     <<IncrementByte(1), JumpForwardsIfZero(2), IncrementByte(-1),
       JumpBackwardsIfNotZero(2), OutputByte>>,
     <<ReadByte, JumpForwardsIfZero(3), OutputByte, ReadByte,
       JumpBackwardsIfNotZero(3)>>,
     <<IncrementPointer(1), IncrementByte(1), JumpForwardsIfZero(5),
       IncrementPointer(-1), OutputByte, IncrementPointer(1),
       IncrementByte(-1), JumpBackwardsIfNotZero(5)>>}

JitIr ==
    {ir \in UNION {[1..n -> JitSamples] : n \in 0..MaxJitLen} : Fused(ir)}
    \cup JitLoops

InitJit ==
    /\ program = <<>>
    /\ input \in Inputs
    /\ vm = "Bfr"
    /\ bf = NoVm
    /\ transformed = NotTransformed
    /\ irvm \in {VmNew(ir) : ir \in JitIr}
    /\ steps = 0
    /\ buffers = NoBuffers
    /\ source = <<>>
    /\ emitter = NoEmitter
    /\ jit = NoJit
    /\ cpu = NoCpu

\* jit::transform(instructions) is called once ir::Vm has run: lines 139-163
JitTransformCall ==
    /\ vm = "Bfr"
    /\ ~(Running(irvm) /\ steps < MaxSteps)
    /\ vm' = "Jit"
    /\ steps' = 0
    /\ buffers' = [buffers EXCEPT
                      ![1] = into_sliceable(Program_new(@, JitPages))]
    /\ emitter' = Prologue(Emitter_new(FilledBuffer(JitPages * PAGE_SIZE, 195)))
    /\ jit' = JitEnter
    /\ UNCHANGED <<program, input, bf, transformed, irvm, source, cpu>>

\* lines 165-244: one iteration of the loop over the instructions
JitEmit ==
    /\ vm = "Jit"
    /\ jit.tag = "emit"
    /\ jit.idx < Len(irvm.program)
    /\ emitter' = EmitInstruction(emitter, At(irvm.program, jit.idx))
    /\ jit' = EmitStep(jit, emitter, At(irvm.program, jit.idx))
    /\ UNCHANGED <<program, input, vm, bf, transformed, irvm, steps, buffers,
                   source, cpu>>

\* lines 246-249
JitEpilogue ==
    /\ vm = "Jit"
    /\ jit.tag = "emit"
    /\ jit.idx >= Len(irvm.program)
    /\ emitter' = Epilogue(emitter)
    /\ jit' = [jit EXCEPT !.tag = IF emitter'.status = "panic"
                                  THEN "panic" ELSE "patch"]
    /\ UNCHANGED <<program, input, vm, bf, transformed, irvm, steps, buffers,
                   source, cpu>>

\* lines 251-268: one iteration of the loop over jumps.values()
JitPatch ==
    /\ vm = "Jit"
    /\ jit.tag = "patch"
    /\ jit.patched < Cardinality(jit.jumps)
    /\ IF PatchTargets(jit) = {}
       THEN /\ jit' = [jit EXCEPT !.tag = "panic"]
            /\ UNCHANGED emitter
       ELSE /\ jit' = [jit EXCEPT !.patched = @ + 1]
            /\ emitter' = PatchStep(jit, emitter)
    /\ UNCHANGED <<program, input, vm, bf, transformed, irvm, steps, buffers,
                   source, cpu>>

\* line 270: sliceable.lock()
JitReturn ==
    /\ vm = "Jit"
    /\ jit.tag = "patch"
    /\ jit.patched >= Cardinality(jit.jumps)
    /\ jit' = [jit EXCEPT !.tag = "Ok"]
    /\ buffers' = [buffers EXCEPT ![1] = SliceableProgram_lock(@)]
    /\ UNCHANGED <<program, input, vm, bf, transformed, irvm, steps, source,
                   emitter, cpu>>

\* jit::Vm::new(program)
JitVmNew ==
    /\ vm = "Jit"
    /\ jit.tag = "Ok"
    /\ cpu.status = "none"
    /\ cpu' = CpuNew
    /\ buffers' = [buffers EXCEPT ![1] = into_callable(@)]
    /\ UNCHANGED <<program, input, vm, bf, transformed, irvm, steps, source,
                   emitter, jit>>

\* jit::Vm::vm_loop up to the call of the function
JitCall ==
    /\ vm = "Jit"
    /\ cpu.status = "new"
    /\ cpu' = CpuCall(cpu)
    /\ buffers' = [buffers EXCEPT ![1] = as_function(@)]
    /\ UNCHANGED <<program, input, vm, bf, transformed, irvm, steps, source,
                   emitter, jit>>

\* the processor runs one instruction of the function
CpuStep ==
    /\ vm = "Jit"
    /\ cpu.status = "running"
    /\ steps < MaxNative
    /\ \E io_ok \in BOOLEAN :
          cpu' = cpu_step(cpu, emitter.buffer, input, io_ok)
    /\ steps' = steps + 1
    /\ UNCHANGED <<program, input, vm, bf, transformed, irvm, buffers, source,
                   emitter, jit>>

NextJit ==
    \/ IrStep
    \/ JitTransformCall
    \/ JitEmit
    \/ JitEpilogue
    \/ JitPatch
    \/ JitReturn
    \/ JitVmNew
    \/ JitCall
    \/ CpuStep

SpecJit == InitJit /\ [][NextJit]_vars

------------------------------------------------------------------------------
(* Properties *)

PrefixComparable(a, b) ==
    LET n == IF Len(a) < Len(b) THEN Len(a) ELSE Len(b)
    IN  SubSeq(a, 1, n) = SubSeq(b, 1, n)

\* transform has returned or unwound
Transformed == transformed.tag \in {"Ok", "NoMatchingJump", "panic"}

\* some '[' of the primitive program p is never closed
HasUnmatchedOpen(p) ==
    \E i \in 0 .. Len(p) - 1 :
        /\ At(p, i) = "JumpForwardsIfZero"
        /\ \A j \in i .. Len(p) - 1 : BracketCount(p, i, j) > 0

\* some prefix of the primitive program p holds more ']' than '['
HasExcessClose(p) ==
    \E j \in 0 .. Len(p) - 1 : BracketCount(p, 0, j) < 0

\* C1: a program that ir::transform accepts gives, on brainfuck::Vm and lowered
\* on ir::Vm, the same output and the same consumption of the input: while both
\* machines are inside the tape, what one has written is a prefix of what the
\* other has written, and when both have run to their end the outputs and the
\* numbers of bytes read are equal.
C1_FusionCorrect ==
    (irvm.status \notin {"none", "ub"} /\ bf.status # "ub") =>
        /\ irvm.program = transformed.ir
        /\ PrefixComparable(bf.out, irvm.out)
        /\ (Halted(bf) /\ Halted(irvm)) =>
               (bf.out = irvm.out /\ bf.read = irvm.read)

\* both machines ran a program with a loop and a fused run to its end and wrote
C1_Witness ==
    /\ Halted(bf) /\ Halted(irvm)
    /\ irvm.out # <<>>
    /\ Len(irvm.program) < Len(program)
    /\ \E i \in 0 .. Len(irvm.program) - 1 :
           At(irvm.program, i).op = "JumpBackwardsIfNotZero"

\* C2: in every IR that ir::transform returns, each JumpForwardsIfZero(d) at i
\* has d > 0, i + d inside the IR and JumpBackwardsIfNotZero(d) at i + d, and each
\* JumpBackwardsIfNotZero(d) at j has d > 0, j >= d and JumpForwardsIfZero(d) at
\* j - d.
C2_JumpsPaired ==
    transformed.tag = "Ok" =>
        \A i \in 0 .. Len(transformed.ir) - 1 :
            LET instr == At(transformed.ir, i)
                d == instr.arg
            IN  /\ instr.op = "JumpForwardsIfZero" =>
                       /\ d > 0
                       /\ i + d < Len(transformed.ir)
                       /\ At(transformed.ir, i + d) = JumpBackwardsIfNotZero(d)
                /\ instr.op = "JumpBackwardsIfNotZero" =>
                       /\ d > 0
                       /\ i >= d
                       /\ At(transformed.ir, i - d) = JumpForwardsIfZero(d)

\* C3: ir::transform returns Err(NoMatchingJump) for every program in which some
\* '[' has no matching ']'.
C3_UnmatchedOpenIsError ==
    (Transformed /\ HasUnmatchedOpen(program)) =>
        transformed.tag = "NoMatchingJump"

\* C4: ir::transform returns Err(NoMatchingJump) for every program with a prefix
\* that holds more ']' than '['.
C4_ExcessCloseIsError ==
    (Transformed /\ HasExcessClose(program)) =>
        transformed.tag = "NoMatchingJump"

\* C5: the data pointer of both interpreters is always inside the tape,
\* 0 <= p < 30000.
C5_PointerInsideTape ==
    /\ bf.data_pointer >= 0 /\ bf.data_pointer < CellsLen
    /\ irvm.data_pointer >= 0 /\ irvm.data_pointer < CellsLen

\* a step of ir::Vm on its current instruction op, with the data pointer
\* inside the tape
IrStepsOn(op) ==
    /\ Running(irvm)
    /\ InBounds(irvm)
    /\ At(irvm.program, irvm.program_counter).op = op
    /\ irvm' # irvm

\* C6: a step of ir::Vm on IncrementByte(d) leaves (tape[p] + d) mod 256 in
\* tape[p], a byte, and advances pc by 1; IncrementByte(256) leaves the cell as
\* it was and IncrementByte(-1) makes a 0 cell 255.
C6_IncrementByteWraps ==
    [][IrStepsOn("IncrementByte") =>
          LET d == At(irvm.program, irvm.program_counter).arg
              before == Cell(irvm.cells, irvm.data_pointer)
              after == Cell(irvm'.cells, irvm.data_pointer)
          IN  /\ after = (before + (d % 256)) % 256
              /\ after \in 0..255
              /\ d = 256 => after = before
              /\ (d = -1 /\ before = 0) => after = 255
              /\ irvm'.program_counter = irvm.program_counter + 1
              /\ irvm'.status = "running"]_vars

\* IncrementByte(-1) has made the 0 cell 255 and IncrementByte(256) has left it so
C6_Witness ==
    /\ irvm.program = <<IncrementByte(-1), IncrementByte(256)>>
    /\ irvm.program_counter = 2
    /\ Cell(irvm.cells, 0) = 255

\* a ReadByte step from m to n, with the data pointer inside the tape, that did
\* not fail with an I/O error
ReadsByte(m, n, op) ==
    /\ Running(m)
    /\ InBounds(m)
    /\ op = "ReadByte"
    /\ n # m
    /\ n.status # "FailedToRead"

\* C7: a ReadByte step of either interpreter with a byte left on the input takes
\* exactly one byte and stores it in tape[p], wherever the data pointer is, and
\* does not panic.
C7_ReadTakesOneByte ==
    [][/\ (ReadsByte(bf, bf', At(bf.program, bf.program_counter))
           /\ bf.read < Len(input)) =>
              /\ bf'.status = "running"
              /\ bf'.read = bf.read + 1
              /\ Cell(bf'.cells, bf.data_pointer) = At(input, bf.read)
       /\ (ReadsByte(irvm, irvm', At(irvm.program, irvm.program_counter).op)
           /\ irvm.read < Len(input)) =>
              /\ irvm'.status = "running"
              /\ irvm'.read = irvm.read + 1
              /\ Cell(irvm'.cells, irvm.data_pointer) = At(input, irvm.read)
      ]_vars

\* C8: a ReadByte step of ir::Vm at the end of the input stores 0 in tape[p],
\* advances pc by 1 and goes on without error.
C8_EofStoresZero ==
    [][(ReadsByte(irvm, irvm', At(irvm.program, irvm.program_counter).op)
        /\ irvm.read >= Len(input)) =>
           /\ irvm'.status = "running"
           /\ Cell(irvm'.cells, irvm.data_pointer) = 0
           /\ irvm'.program_counter = irvm.program_counter + 1
      ]_vars

\* C9: the pages of a buffer are never writable and executable at once, a
\* SliceableProgram and a CallableProgram of one buffer never exist together,
\* and as_function has only ever returned while the pages were READ|EXEC.
C9_WriteXorExecute ==
    \A b \in 1..MaxBuffers :
        /\ ~({"WRITE", "EXEC"} \subseteq buffers[b].prot)
        /\ ~({"SliceableProgram", "CallableProgram"} \subseteq buffers[b].handles)
        /\ buffers[b].fn_prot \in {{"never"}, {"READ", "EXEC"}}

\* buffer 1 is held callable with its function pointer taken; buffer 2 was
\* callable, gave its function pointer, was locked and is now held writable
C9_Witness ==
    /\ buffers[1].handles = {"CallableProgram"}
    /\ buffers[1].fn_prot = {"READ", "EXEC"}
    /\ buffers[2].handles = {"SliceableProgram"}
    /\ buffers[2].fn_prot = {"READ", "EXEC"}

\* C10: in every IR that ir::transform returns, no two neighbours are both
\* IncrementPointer and no two neighbours are both IncrementByte.
C10_RunsFused ==
    transformed.tag = "Ok" =>
        \A k \in 0 .. Len(transformed.ir) - 2 :
            LET a == At(transformed.ir, k).op
                b == At(transformed.ir, k + 1).op
            IN  /\ ~(a = "IncrementPointer" /\ b = "IncrementPointer")
                /\ ~(a = "IncrementByte" /\ b = "IncrementByte")

\* a run of three byte operations was lowered to one instruction, and a byte
\* run followed by a pointer run to two
C10_Witness ==
    /\ transformed.tag = "Ok"
    /\ \/ /\ program = <<"IncrementByte", "DecrementByte", "IncrementByte">>
          /\ transformed.ir = <<IncrementByte(1)>>
       \/ /\ program = <<"IncrementByte", "IncrementByte", "IncrementPointer">>
          /\ transformed.ir = <<IncrementByte(2), IncrementPointer(1)>>

\* the encoder whose result is f wrote, from e.index on, the prefix byte 0x41
\* and then the opcode
Prefixed(e, f, opcode) ==
    /\ f.index = e.index + 3
    /\ ByteAt(f.buffer, e.index) = 65
    /\ ByteAt(f.buffer, e.index + 1) = opcode

\* the encoder whose result is f wrote the opcode with no prefix
Unprefixed(e, f, opcode) ==
    /\ f.index = e.index + 2
    /\ ByteAt(f.buffer, e.index) = opcode

\* C18: push, pop and call64 emit the prefix byte 0x41 before the opcode exactly
\* for the registers R8..R15, R8 included, and no prefix for the others.
C18_PrefixFromR8 ==
    [][\A r \in Register :
          /\ (emitter' = push(emitter, r) /\ emitter'.status = "ok") =>
                 IF r >= R8 THEN Prefixed(emitter, emitter', 255)
                 ELSE Unprefixed(emitter, emitter', 255)
          /\ (emitter' = pop(emitter, r) /\ emitter'.status = "ok") =>
                 IF r >= R8 THEN Prefixed(emitter, emitter', 143)
                 ELSE Unprefixed(emitter, emitter', 143)
          /\ (emitter' = call64(emitter, r) /\ emitter'.status = "ok") =>
                 IF r >= R8 THEN Prefixed(emitter, emitter', 255)
                 ELSE Unprefixed(emitter, emitter', 255)
      ]_vars

\* the kind of run a primitive instruction belongs to
RunKind(instr) ==
    IF instr \in {"IncrementByte", "DecrementByte"} THEN "byte"
    ELSE IF instr \in {"IncrementPointer", "DecrementPointer"} THEN "pointer"
    ELSE "single"

\* position k of the primitive program p starts a maximal run
StartsRun(p, k) ==
    \/ k = 0
    \/ RunKind(At(p, k)) = "single"
    \/ RunKind(At(p, k - 1)) # RunKind(At(p, k))

RunStarts(p) == {k \in 0 .. Len(p) - 1 : StartsRun(p, k)}

\* the start of run number n, counted from 0
NthRunStart(p, n) ==
    CHOOSE k \in RunStarts(p) : Cardinality({j \in RunStarts(p) : j < k}) = n

\* the positions of the run that starts at k
RunOf(p, k) ==
    {j \in k .. Len(p) - 1 : \A i \in k + 1 .. j : ~StartsRun(p, i)}

\* (number of '+' or '>') - (number of '-' or '<') in the run that starts at k
RunSum(p, k) ==
    Cardinality({j \in RunOf(p, k) :
                    At(p, j) \in {"IncrementByte", "IncrementPointer"}})
    - Cardinality({j \in RunOf(p, k) :
                      At(p, j) \in {"DecrementByte", "DecrementPointer"}})

\* C11: after pass 1 of ir::transform the IR holds one instruction for each
\* maximal run of '+'/'-' (IncrementByte of the run's sum) and of '>'/'<'
\* (IncrementPointer of the run's sum), a sum of 0 included, and one for each
\* '.', ',', '[' and ']', in the order of the program; it is no longer than the
\* program.
C11_RunsLowered ==
    transformed.tag \in {"pass2", "Ok"} =>
        /\ Len(transformed.ir) = Cardinality(RunStarts(program))
        /\ Len(transformed.ir) <= Len(program)
        /\ \A n \in 0 .. Len(transformed.ir) - 1 :
               LET k == NthRunStart(program, n)
                   instr == At(transformed.ir, n)
               IN  CASE RunKind(At(program, k)) = "byte" ->
                            instr = IncrementByte(RunSum(program, k))
                     [] RunKind(At(program, k)) = "pointer" ->
                            instr = IncrementPointer(RunSum(program, k))
                     [] OTHER -> instr.op = At(program, k)

\* "+--.><<" was lowered to IncrementByte(-1), OutputByte, IncrementPointer(-1)
C11_Witness ==
    /\ transformed.tag = "Ok"
    /\ Len(program) = 7
    /\ transformed.ir = <<IncrementByte(-1), OutputByte, IncrementPointer(-1)>>

\* a step of an interpreter from m to n on the instruction op keeps the two
\* streams in order
StreamsInOrder(m, n, op) ==
    (Running(m) /\ n # m) =>
        /\ op # "OutputByte" => n.out = m.out
        /\ op = "OutputByte" =>
               \/ n.out = m.out /\ n.status # "running"
               \/ n.out = Append(m.out, Cell(m.cells, m.data_pointer))
        /\ op # "ReadByte" => n.read = m.read
        /\ op = "ReadByte" =>
               \/ n.read = m.read
               \/ /\ n.read = m.read + 1
                  /\ m.read < Len(input)
                  /\ Cell(n.cells, m.data_pointer) = At(input, m.read)

OpcodeOf ==
    (62 :> "IncrementPointer") @@ (60 :> "DecrementPointer")
    @@ (43 :> "IncrementByte") @@ (45 :> "DecrementByte")
    @@ (46 :> "OutputByte") @@ (44 :> "ReadByte")
    @@ (91 :> "JumpForwardsIfZero") @@ (93 :> "JumpBackwardsIfNotZero")

InAlphabet(byte) == byte \in DOMAIN OpcodeOf

\* C17: brainfuck::parse drops every byte that is not one of the eight symbols
\* and maps the others, in order, to their opcodes: parse(s) = parse(filter(s)),
\* and parse(s) has one instruction for each symbol byte of s.
C17_ParseFilters ==
    vm # "main" =>
        LET filtered == SelectSeq(source, InAlphabet)
        IN  /\ program = parse(filtered)
            /\ Len(program) =
                   Cardinality({i \in 1..Len(source) : InAlphabet(source[i])})
            /\ Len(program) = Len(filtered)
            /\ \A i \in 1..Len(filtered) : program[i] = OpcodeOf[filtered[i]]

\* "a," was parsed to the one instruction ReadByte
C17_Witness ==
    /\ vm # "main"
    /\ source = <<97, 44>>
    /\ program = <<"ReadByte">>

\* C15: from the initial state, vm_loop on "[]" eventually halts with nothing
\* written, and vm_loop on "+[]" never halts and stays inside the loop, on
\* brainfuck::Vm and on ir::Vm.
C15_EmptyAndSpinLoop ==
    /\ (program = EmptyLoop /\ vm = "RawBf") ~> (Halted(bf) /\ bf.out = <<>>)
    /\ (program = EmptyLoop /\ vm = "Bfr") ~> (Halted(irvm) /\ irvm.out = <<>>)
    /\ [](program = SpinLoop =>
             /\ bf.status \in {"none", "running"}
             /\ irvm.status \in {"none", "running"}
             /\ bf.program_counter < Len(bf.program) \/ bf.status = "none"
             /\ irvm.program_counter < Len(irvm.program) \/ irvm.status = "none")

\* ir::Vm is still inside the loop of "+[]" after MaxLoopSteps steps
C15_Witness ==
    /\ program = SpinLoop
    /\ vm = "Bfr"
    /\ steps = MaxLoopSteps
    /\ Running(irvm)
    /\ irvm.program_counter \in {1, 2}
    /\ Cell(irvm.cells, 0) = 1

\* the interpreter that main runs
TheVm == IF vm = "RawBf" THEN bf ELSE irvm

AtOuterClose(m) ==
    /\ Running(m)
    /\ m.program_counter = Len(m.program) - 3

Patched ==
    IF jit.tag = "Ok" THEN jit.jumps
    ELSE IF jit.tag = "patch"
    THEN {jumpinfo \in jit.jumps :
            Cardinality({other \in jit.jumps : other.idx < jumpinfo.idx})
                < jit.patched}
    ELSE {}

\* jumps[jumpinfo.target]
Partner(jumpinfo) == CHOOSE t \in jit.jumps : t.idx = jumpinfo.target

\* C13 as stated: the four bytes at asm_offset + 2 .. + 5 of every patched jump
\* are the little-endian signed 32-bit encoding of
\* target_info.asm_offset - (jumps[idx].asm_offset + 6).
C13_PatchFromNext ==
    \A jumpinfo \in Patched :
        Rel32At(emitter.buffer, jumpinfo.asm_offset + 2)
            = Partner(jumpinfo).asm_offset - (jumpinfo.asm_offset + 6)

\* C13, amended: the four bytes at asm_offset + 2 .. + 5 of every patched jump
\* are the little-endian signed 32-bit encoding of
\* target_info.asm_offset - jumps[idx].asm_offset, and the two bytes before
\* them are the opcode of the jump.
C13_PatchFromJump ==
    \A jumpinfo \in Patched :
        /\ Rel32At(emitter.buffer, jumpinfo.asm_offset + 2)
              = Partner(jumpinfo).asm_offset - jumpinfo.asm_offset
        /\ \A k \in 2..5 : ByteAt(emitter.buffer, jumpinfo.asm_offset + k)
                              \in 0..255
        /\ ByteAt(emitter.buffer, jumpinfo.asm_offset) = 15
        /\ ByteAt(emitter.buffer, jumpinfo.asm_offset + 1) \in {132, 133}

\* the patch pass is over and a backward jump has a negative displacement, the
\* forward jump of the same loop the opposite one
C13_Witness ==
    /\ jit.tag = "Ok"
    /\ \E jumpinfo \in jit.jumps :
          /\ jumpinfo.target < jumpinfo.idx
          /\ Rel32At(emitter.buffer, jumpinfo.asm_offset + 2) < 0
          /\ ByteAt(emitter.buffer, jumpinfo.asm_offset + 5) = 255
          /\ Rel32At(emitter.buffer, Partner(jumpinfo).asm_offset + 2)
                = -Rel32At(emitter.buffer, jumpinfo.asm_offset + 2)

\* the processor run from c until rip reaches to
RECURSIVE CpuRun(_, _, _)
CpuRun(c, buffer, to) ==
    IF c.status # "running" \/ c.rip >= to THEN c
    ELSE CpuRun(cpu_step(c, buffer, <<>>, TRUE), buffer, to)

\* what the bytes in from .. to - 1 add to rdi when the processor runs them
NetRdi(buffer, from, to) ==
    CpuRun([CpuCall(CpuNew) EXCEPT !.rip = from], buffer, to).reg[Rdi]

\* the iteration of the emit loop that has just ended was for op
JustEmitted(op) ==
    /\ jit.tag = "emit"
    /\ jit.idx > 0
    /\ At(irvm.program, jit.idx - 1).op = op

\* C19: what jit::transform has emitted for an IncrementPointer(d) changes rdi
\* by d when run (immediates are 8 bits wide, so a delta above 255 takes
\* several instructions), and nothing is emitted for d = 0.
C19_PointerDeltaEmitted ==
    JustEmitted("IncrementPointer") =>
        LET d == At(irvm.program, jit.idx - 1).arg
            from == jit.starts[jit.idx]
        IN  /\ NetRdi(emitter.buffer, from, emitter.index) = TapePtr(d)
            /\ (d = 0 => emitter.index = from)

\* the processor is about to run a call
AtCall ==
    /\ vm = "Jit"
    /\ cpu.status = "running"
    /\ LET o == IF ByteAt(emitter.buffer, cpu.rip) \in 64..79
                THEN cpu.rip + 1 ELSE cpu.rip
       IN  /\ ByteAt(emitter.buffer, o) = 255
           /\ ByteAt(emitter.buffer, o + 1) \div 8 = 26

\* C20 as stated: at each call the only outstanding pushes are the four of the
\* prologue.
C20_OnlyPrologueAtCall == AtCall => Len(cpu.stack) = 4

\* C20, amended: at each call the outstanding pushes are the four of the
\* prologue and, on top, the push rdi emitted right before the call, which the
\* pop rdi right after the call matches; with the five rsp is a multiple of 16
\* at the call.
C20_PrologueAndRdiAtCall ==
    AtCall =>
        LET o == IF ByteAt(emitter.buffer, cpu.rip) \in 64..79
                 THEN cpu.rip + 1 ELSE cpu.rip
        IN  /\ Len(cpu.stack) = 5
            /\ SubSeq(cpu.stack, 1, 4)
                  = <<CallerValue(Rbp), CallerValue(R12), CallerValue(R13),
                      CallerValue(R14)>>
            /\ cpu.stack[5] = cpu.reg[Rdi]
            /\ cpu.reg[Rdi].kind = "tape"
            /\ ByteAt(emitter.buffer, cpu.rip - 2) = 255
            /\ ByteAt(emitter.buffer, cpu.rip - 1) = 247
            /\ ByteAt(emitter.buffer, o + 2) = 143
            /\ ByteAt(emitter.buffer, o + 3) = 199

\* the processor is at the call of read_trampoline of a ReadByte that follows
\* a move of the pointer
C20_Witness ==
    /\ AtCall
    /\ ByteAt(emitter.buffer, cpu.rip) = 65
    /\ cpu.reg[R13] = ReadTrampoline
    /\ cpu.reg[Rdi] = TapePtr(1)
    /\ Len(cpu.stack) = 5

\* C12: when ir::Vm has run an IR to its end and the function compiled from
\* the same IR has run to its ret on the same input, the two have written the
\* same bytes and taken the same number of bytes of the input.
C12_JitEquivalent ==
    (vm = "Jit" /\ Halted(irvm) /\ cpu.status = "returned")
        => (cpu.out = irvm.out /\ cpu.read = irvm.read)

\* the registers the prologue saves, in the order of its pushes
Saved == <<Rbp, R12, R13, R14>>

\* the processor is at the first byte of what was emitted for an instruction
\* of the IR
AtBodyStart ==
    /\ vm = "Jit"
    /\ cpu.status = "running"
    /\ \E i \in 1..Len(jit.starts) : jit.starts[i] = cpu.rip

\* the processor is about to run a ret
AtRet ==
    /\ vm = "Jit"
    /\ cpu.status = "running"
    /\ cpu.rip >= 0
    /\ ByteAt(emitter.buffer, cpu.rip) = 195

\* C21: the emitted code keeps the stack balanced: where the code of an IR
\* instruction starts, the four values pushed by the prologue (the caller's
\* rbp, r12, r13, r14) are all that is on the stack and rdi is the cell
\* pointer again; at the final ret, and after it, the stack is as deep as at
\* entry and rbp, r12, r13, r14 hold the values they had at entry.
C21_StackBalanced ==
    /\ AtBodyStart =>
          /\ cpu.stack = [i \in 1..4 |-> CallerValue(Saved[i])]
          /\ cpu.reg[Rdi].kind = "tape"
    /\ (AtRet \/ cpu.status = "returned") =>
          /\ cpu.stack = <<>>
          /\ \A i \in 1..4 : cpu.reg[Saved[i]] = CallerValue(Saved[i])

\* the function has returned after a loop in which both trampolines were
\* called
C21_Witness ==
    /\ cpu.status = "returned"
    /\ Len(irvm.program) = 5
    /\ cpu.out = <<7>>
    /\ cpu.read = 2
    /\ cpu.stack = <<>>
    /\ cpu.reg[R12] = CallerValue(R12)

\* C22: once jit::transform has emitted the epilogue, through the patch pass
\* and after the return, every byte of the buffer from the emitter's index on
\* is 0xC3: the buffer was filled with it and nothing is stored there; so the
\* byte after the epilogue is a ret when the code is shorter than the buffer.
C22_RestIsRet ==
    (vm = "Jit" /\ jit.tag \in {"patch", "Ok"}) =>
        /\ emitter.buffer.fill = 195
        /\ \A pr \in emitter.buffer.bytes : pr[1] < emitter.index
        /\ emitter.index < emitter.buffer.size
              => ByteAt(emitter.buffer, emitter.index) = 195

\* transform has returned a program with a patched loop that ends in the
\* epilogue's pop rbp, followed by the fill
C22_Witness ==
    /\ jit.tag = "Ok"
    /\ jit.patched = 2
    /\ emitter.index < emitter.buffer.size
    /\ ByteAt(emitter.buffer, emitter.index - 2) = 143
    /\ ByteAt(emitter.buffer, emitter.index - 1) = 197
    /\ ByteAt(emitter.buffer, emitter.index) = 195

\* C25: the pages of a buffer held through a plain Program handle (after
\* Program::new, SliceableProgram::lock or CallableProgram::lock) have the
\* protection PROT_NONE.
C25_LockedIsNone ==
    \A b \in 1..MaxBuffers :
        (buffers[b].allocated = "yes" /\ Held(b, "Program"))
            => buffers[b].prot = PROT_NONE

\* what a call of an encoder of an instruction of n bytes may do to the
\* emitter e, f being the emitter after it
Frame(e, f, n) ==
    IF e.index + n > e.buffer.size
    THEN /\ f.status = "panic"
         /\ f.buffer = e.buffer
         /\ f.index = e.index
    ELSE /\ f.status = "ok"
         /\ f.index = e.index + n
         /\ f.buffer.size = e.buffer.size
         /\ \A pr \in f.buffer.bytes : pr[1] \in 0..(f.buffer.size - 1)
         /\ \A k \in 0..(e.buffer.size - 1) :
               (k < e.index \/ k >= e.index + n)
                   => ByteAt(f.buffer, k) = ByteAt(e.buffer, k)
\* C23: a call of an encoder of an instruction of n bytes stores only at
\* index .. index + n - 1 and adds n to index; when index + n is beyond the
\* end of the buffer it panics and has stored nothing and left index as it was.
\* Stated of every encoder on every emitter that is reached.
C23_EmitFrame ==
    emitter.status = "ok" =>
        /\ \A r \in EmitRegisters, imm \in EmitImmediates :
              /\ Frame(emitter, addu8_reg(emitter, r, imm), 4)
              /\ Frame(emitter, subu8_reg(emitter, r, imm), 4)
              /\ Frame(emitter, addu8_ptr(emitter, r, imm), 3)
              /\ Frame(emitter, subu8_ptr(emitter, r, imm), 3)
              /\ Frame(emitter, addu8_ptr_u8disp(emitter, r, 2, imm), 4)
              /\ Frame(emitter, subu8_ptr_u8disp(emitter, r, 2, imm), 4)
              /\ Frame(emitter, cmpu8_ptr(emitter, r, 0), 3)
        /\ \A offset \in {42, 65536} :
              /\ Frame(emitter, jneu32(emitter, offset), 6)
              /\ Frame(emitter, jeu32(emitter, offset), 6)
        /\ \A r \in Register :
              /\ Frame(emitter, call64(emitter, r), 2 + Len(rex_rm(r)))
              /\ Frame(emitter, push(emitter, r), 2 + Len(rex_rm(r)))
              /\ Frame(emitter, pop(emitter, r), 2 + Len(rex_rm(r)))
        /\ \A dst \in {Rbp, R12}, src \in {Rsi, R8} :
              Frame(emitter, mov64_reg(emitter, dst, src), 3)

\* an encoder has panicked on a buffer that held a push or a call of two bytes
\* and had room for four
\* more bytes, and the four are still the fill
C23_Witness ==
    /\ emitter.status = "panic"
    /\ emitter.buffer.size = 6
    /\ emitter.index = 2
    /\ ByteAt(emitter.buffer, 0) = 255
    /\ \A k \in 2..5 : ByteAt(emitter.buffer, k) = emitter.buffer.fill

\* step has returned Err(FailedToWrite) or Err(FailedToRead)
IoFailed(m) == m.status \in {"FailedToWrite", "FailedToRead"}

\* the step from m to n is one that failed with an I/O error: it was at the
\* instruction op says, and n is m but for the error
FailedOn(m, n, op) ==
    /\ n = [m EXCEPT !.status = n.status]
    /\ ~UGe(m.program_counter, Len(m.program))
    /\ op = IF n.status = "FailedToWrite" THEN "OutputByte" ELSE "ReadByte"

\* C24: a step of brainfuck::Vm or ir::Vm that fails with an I/O error is an
\* OutputByte step returning FailedToWrite or a ReadByte step returning
\* FailedToRead, and leaves pc, the data pointer, the tape and the streams as
\* they were; after it vm_loop has returned and the machine takes no step.
C24_IoErrorLeavesVm ==
    [][/\ (~IoFailed(bf) /\ IoFailed(bf'))
             => FailedOn(bf, bf', At(bf.program, bf.program_counter))
       /\ (~IoFailed(irvm) /\ IoFailed(irvm'))
             => FailedOn(irvm, irvm',
                         At(irvm.program, irvm.program_counter).op)
       /\ IoFailed(bf) => bf' = bf
       /\ IoFailed(irvm) => irvm' = irvm
      ]_vars

\* "+.," lowered: ir::Vm has written the 1 and its read has failed at pc = 2
C24_Witness ==
    /\ irvm.status = "FailedToRead"
    /\ irvm.program_counter = 2
    /\ irvm.out = <<1>>
    /\ Cell(irvm.cells, 0) = 1
    /\ irvm.read = 0

\* C26: ir::transform returns Ok or Err(NoMatchingJump) and never aborts,
\* however deep the brackets nest.
C26_TransformReturns == transformed.tag # "panic"

\* a step of ir::Vm::vm_loop
IrSteps == irvm.status = "running" /\ irvm' # irvm

\* C27: ir::Vm on an IR that ir::transform returned fetches only at
\* 0 <= pc < m and leaves pc in 0 .. m, so that the loop ends exactly at
\* pc = m; a JumpForwardsIfZero(d) step makes pc + d of pc when the cell is 0
\* and pc + 1 otherwise, a JumpBackwardsIfNotZero(d) step pc - d when the cell
\* is not 0 and pc + 1 otherwise, and both change nothing but pc.
C27_JumpsInsideProgram ==
    [][IrSteps =>
          LET pc == irvm.program_counter
              m == Len(irvm.program)
              instr == At(irvm.program, pc)
              zero == Cell(irvm.cells, irvm.data_pointer) = 0
          IN  /\ irvm.program = transformed.ir
              /\ pc >= 0 /\ pc < m
              /\ irvm'.program_counter >= 0 /\ irvm'.program_counter <= m
              /\ Halted(irvm') <=>
                    (irvm'.status = "running" /\ irvm'.program_counter = m)
              /\ instr.op = "JumpForwardsIfZero" =>
                    irvm' = [irvm EXCEPT !.program_counter =
                                IF zero THEN pc + instr.arg ELSE pc + 1]
              /\ instr.op = "JumpBackwardsIfNotZero" =>
                    irvm' = [irvm EXCEPT !.program_counter =
                                IF zero THEN pc + 1 ELSE pc - instr.arg]
      ]_vars

\* "++[->+<]>." lowered has run to its end: the loop was entered, repeated and
\* left, and pc = m
C27_Witness ==
    /\ Halted(irvm)
    /\ Len(irvm.program) = 9
    /\ irvm.program_counter = 9
    /\ irvm.out = <<2>>
    /\ At(irvm.program, 1) = JumpForwardsIfZero(5)
    /\ At(irvm.program, 6) = JumpBackwardsIfNotZero(5)

====
